---------------------------- MODULE Spec2Model ----------------------------
(***************************************************************************)
(* A model of the A* search engine (astar.py) and of the priority queue   *)
(* with lazy deletion it is built on (priorityqueue.py).                  *)
(*                                                                         *)
(* Nodes and tasks are the integers 1..n.  Weights, heuristic values and  *)
(* priorities are integers (the code computes with floats; rounding is    *)
(* outside this model).  heapq is modelled by its contract: the heap is   *)
(* the set of its entries and heappop takes the least entry in the order  *)
(* of Python lists [priority, count, task]; count is unique, so the third *)
(* component is never compared.                                            *)
(***************************************************************************)
EXTENDS Integers, Sequences, FiniteSets, TLC

(***************************************************************************)
(* Bounds of the model.                                                    *)
(***************************************************************************)
NumNodes == 4       \* nodes of the graph are 1..NumNodes
MaxEdges == 3       \* the graph holds at most this many directed edges
MaxW     == 1       \* edge weights are 0..MaxW
MaxH     == 1       \* heuristic values are 0..MaxH
NumTasks == 3       \* tasks of the stand-alone queue are 1..NumTasks
MaxAdds  == 3       \* add_task calls in one behaviour of the queue
MaxEdits == 2       \* edits of the graph in one behaviour of the engine's caller

Nodes      == 1..NumNodes
Tasks      == 1..NumTasks
Priorities == {1, 3, 5}

VARIABLES
    pqv,        \* the stand-alone PriorityQueue object: heap, counter, entry_finder
    live,       \* reference view of the queue: the tasks added and not yet popped or removed
    popLog,     \* what consecutive pop_task calls returned since the last add/remove
    qlast,      \* the last queue call and what it returned
    graph,      \* the caller's graph: <<u, v>> -> weight, read by the callbacks
    heur,       \* the caller's heuristic: node -> estimate
    cache,      \* AStar.cache: <<source, goal>> -> path
    seen,       \* reference view: what get_shortest returned per pair since the last invalidate
    last,       \* the last engine call and what it returned
    edits,      \* the number of edits of the graph so far
    srch,       \* one call of _compute_path, a loop iteration at a time
    grid,       \* GridPath.graph: cell -> tile state
    glast       \* the last call of GridPath and what it did

vars == <<pqv, live, popLog, qlast, graph, heur, cache, seen, last, edits, srch,
          grid, glast>>
qvars == <<pqv, live, popLog, qlast>>
evars == <<graph, heur, cache, seen, last, edits>>
xvars == <<srch, grid, glast>>

\* The empty dict.
EmptyMap == [x \in {} |-> 0]

\* d with key k set to v / with key k deleted.
MapSet(d, k, v) == [x \in DOMAIN d \cup {k} |-> IF x = k THEN v ELSE d[x]]
MapDel(d, k) == [x \in DOMAIN d \ {k} |-> d[x]]

(***************************************************************************)
(* priorityqueue.py                                                        *)
(***************************************************************************)
REMOVED == 0

\* PriorityQueue() with no initial tasks.
NewQueue == [heap |-> {}, counter |-> 0, entry_finder |-> EmptyMap]

\* An order that breaks ties of the priority by the later count.
EntryLessLifo(e, f) == \/ e[1] < f[1]
                       \/ e[1] = f[1] /\ e[2] > f[2]

\* Python's order of the lists [priority, count, task].
EntryLess(e, f) == \/ e[1] < f[1]
                   \/ e[1] = f[1] /\ e[2] < f[2]

\* heap[0] of a heapq heap: the least entry.
HeapMin(heap) == CHOOSE e \in heap : \A f \in heap : f = e \/ EntryLess(e, f)

\* remove_task without line 37: the entry leaves the index and stays as
\* it is in the heap.
RemoveTaskNoMark(q, task) ==
    [q EXCEPT !.entry_finder = MapDel(q.entry_finder, task)]

\* remove_task for a task in entry_finder: its entry is popped from the
\* index and its task field overwritten in place, so the heap holds the
\* tombstone where the entry was.
RemoveTask(q, task) ==
    LET entry == q.entry_finder[task]
    IN  [q EXCEPT !.entry_finder = MapDel(q.entry_finder, task),
                  !.heap = (q.heap \ {entry}) \cup {<<entry[1], entry[2], REMOVED>>}]

\* add_task without lines 27-28: an entry the task has stays live.
AddTaskKeepsOld(q, task, priority) ==
    LET entry == <<priority, q.counter, task>>
    IN  [heap         |-> q.heap \cup {entry},
         counter      |-> q.counter + 1,
         entry_finder |-> MapSet(q.entry_finder, task, entry)]

AddTask(q, task, priority) ==
    LET q1    == IF task \in DOMAIN q.entry_finder THEN RemoveTask(q, task) ELSE q
        count == q1.counter
        entry == <<priority, count, task>>
    IN  [heap         |-> q1.heap \cup {entry},
         counter      |-> count + 1,
         entry_finder |-> MapSet(q1.entry_finder, task, entry)]

\* pop_task reading the least live entry and leaving it in the heap.
RECURSIVE PopTaskPeek(_)
PopTaskPeek(q) ==
    IF q.heap = {}
    THEN [q |-> q, task |-> REMOVED, err |-> TRUE]
    ELSE LET e == HeapMin(q.heap)
         IN  IF e[3] # REMOVED
             THEN [q |-> q, task |-> e[3], err |-> FALSE]
             ELSE PopTaskPeek([q EXCEPT !.heap = q.heap \ {e}])

\* pop_task giving up at the first tombstone it pops.
PopTaskStopsAtTombstone(q) ==
    IF q.heap = {}
    THEN [q |-> q, task |-> REMOVED, err |-> TRUE]
    ELSE LET e  == HeapMin(q.heap)
             q1 == [q EXCEPT !.heap = q.heap \ {e}]
         IN  IF e[3] # REMOVED
             THEN [q    |-> [q1 EXCEPT !.entry_finder = MapDel(q.entry_finder, e[3])],
                   task |-> e[3],
                   err  |-> FALSE]
             ELSE [q |-> q1, task |-> REMOVED, err |-> TRUE]

\* pop_task: [q |-> the queue afterwards, task |-> the task returned,
\* err |-> TRUE when KeyError is raised].
RECURSIVE PopTask(_)
PopTask(q) ==
    IF q.heap = {}
    THEN [q |-> q, task |-> REMOVED, err |-> TRUE]
    ELSE LET e  == HeapMin(q.heap)
             q1 == [q EXCEPT !.heap = q.heap \ {e}]
         IN  IF e[3] # REMOVED
             THEN [q    |-> [q1 EXCEPT !.entry_finder = MapDel(q.entry_finder, e[3])],
                   task |-> e[3],
                   err  |-> FALSE]
             ELSE PopTask(q1)

\* __bool__
QueueBool(q) == q.heap # {}

\* remove_task that returns quietly for a task that is not in entry_finder.
RemoveTaskCallQuiet(q, task) ==
    IF task \in DOMAIN q.entry_finder
    THEN [q |-> RemoveTask(q, task), err |-> FALSE]
    ELSE [q |-> q, err |-> FALSE]

\* A call remove_task(task): KeyError, and nothing changed, when the task
\* is not in entry_finder.
RemoveTaskCall(q, task) ==
    IF task \in DOMAIN q.entry_finder
    THEN [q |-> RemoveTask(q, task), err |-> FALSE]
    ELSE [q |-> q, err |-> TRUE]


(***************************************************************************)
(* The callbacks handed to AStar.__init__, read off the caller's graph.    *)
(***************************************************************************)
None == 0

\* The neighbours of n from node v on, in ascending order.
RECURSIVE AdjFrom(_, _, _)
AdjFrom(g, n, v) ==
    IF v > NumNodes THEN <<>>
    ELSE (IF <<n, v>> \in DOMAIN g THEN <<v>> ELSE <<>>) \o AdjFrom(g, n, v + 1)

\* self.adj, self.weight and self.heuristic as tables.
Callbacks(g, h) ==
    [adj       |-> [n \in Nodes |-> AdjFrom(g, n, 1)],
     weight    |-> g,
     heuristic |-> [p \in Nodes \X Nodes |-> h[p[1]]]]

(***************************************************************************)
(* astar.py: one search.  st is the scratch state of _compute_path:        *)
(* node_pq, parent, shortest, and the number of calls of self.adj so far.  *)
(***************************************************************************)
\* Iterations of a loop after which the model reports that it does not stop.
MaxIter == 12

\* Lines 56-60.
NewSearch(source) ==
    [pq       |-> AddTask(NewQueue, source, 0),
     parent   |-> MapSet(EmptyMap, source, None),
     shortest |-> MapSet(EmptyMap, source, 0),
     calls    |-> 0]

\* Line 69 with a shortest whose missing keys read as zero.
ImprovesSeenOnly(shortest, adj_node, cost) ==
    adj_node \in DOMAIN shortest /\ shortest[adj_node] > cost

\* Line 69: shortest is a defaultdict whose missing keys read as infinity.
Improves(shortest, adj_node, cost) ==
    adj_node \notin DOMAIN shortest \/ shortest[adj_node] > cost

\* Line 72 with the cost so far left out of the priority.
PriorityNoCost(cb, adj_node, goal, cost) == cb.heuristic[<<adj_node, goal>>]

\* Line 72: the priority of a relaxed node.
Priority(cb, adj_node, goal, cost) == cost + cb.heuristic[<<adj_node, goal>>]

\* Lines 67-72: the for loop over self.adj(node), from its i-th element on.
RECURSIVE Relax(_, _, _, _, _)
Relax(cb, st, node, goal, i) ==
    LET nbrs == cb.adj[node]
    IN  IF i > Len(nbrs) THEN st
        ELSE LET adj_node == nbrs[i]
                 cost     == st.shortest[node] + cb.weight[<<node, adj_node>>]
             IN  IF Improves(st.shortest, adj_node, cost)
                 THEN Relax(cb,
                            [st EXCEPT
                               !.shortest = MapSet(st.shortest, adj_node, cost),
                               !.parent   = MapSet(st.parent, adj_node, node),
                               !.pq       = AddTask(st.pq, adj_node,
                                                    Priority(cb, adj_node, goal, cost))],
                            node, goal, i + 1)
                 ELSE Relax(cb, st, node, goal, i + 1)

\* Lines 94-97 with source appended to the path as well.
RECURSIVE WalkWithSource(_, _, _, _, _)
WalkWithSource(parent_dic, source, node, acc, fuel) ==
    IF node = source THEN [kind |-> "path", path |-> <<node>> \o acc]
    ELSE IF fuel = 0 THEN [kind |-> "diverge", path |-> <<>>]
    ELSE IF node = None \/ node \notin DOMAIN parent_dic
         THEN [kind |-> "KeyError", path |-> <<>>]
    ELSE WalkWithSource(parent_dic, source, parent_dic[node], <<node>> \o acc, fuel - 1)

\* Lines 94-97 for a goal other than source: the walk along the parent
\* links, acc being path reversed.  A node without a parent entry, or whose
\* parent is None, ends in KeyError.
RECURSIVE Walk(_, _, _, _, _)
Walk(parent_dic, source, node, acc, fuel) ==
    IF node = source THEN [kind |-> "path", path |-> acc]
    ELSE IF fuel = 0 THEN [kind |-> "diverge", path |-> <<>>]
    ELSE IF node = None \/ node \notin DOMAIN parent_dic
         THEN [kind |-> "KeyError", path |-> <<>>]
    ELSE Walk(parent_dic, source, parent_dic[node], <<node>> \o acc, fuel - 1)

\* _restore_path.  The loop tests `node is not source`, the identity of the
\* objects: same says whether the goal argument is the object passed as
\* source.  A goal equal to source but another object is appended, its
\* parent None is appended too, and parent_dic[None] raises KeyError.  Every
\* other node of the chain that equals source is the source object itself,
\* the only entry of source that the queue ever held.
RestorePath(parent_dic, source, goal, same) ==
    IF goal = source
    THEN IF same THEN [kind |-> "path", path |-> <<>>]
                 ELSE [kind |-> "KeyError", path |-> <<>>]
    ELSE Walk(parent_dic, source, goal, <<>>, MaxIter)

\* Line 62: the test of the while loop.
LoopTest(q) == QueueBool(q)

\* Lines 62-73: the while loop.  [kind, path, calls]: kind "path" is a
\* returned list, "KeyError" the exception of pop_task or _restore_path.
RECURSIVE SearchLoop(_, _, _, _, _, _)
SearchLoop(cb, st, source, goal, same, fuel) ==
    IF ~LoopTest(st.pq)
    THEN [kind |-> "path", path |-> <<>>, calls |-> st.calls]
    ELSE IF fuel = 0
    THEN [kind |-> "diverge", path |-> <<>>, calls |-> st.calls]
    ELSE LET pop == PopTask(st.pq)
         IN  IF pop.err
             THEN [kind |-> "KeyError", path |-> <<>>, calls |-> st.calls]
             ELSE IF pop.task = goal
             THEN LET r == RestorePath(st.parent, source, goal, same)
                  IN  [kind |-> r.kind, path |-> r.path, calls |-> st.calls]
             ELSE SearchLoop(cb,
                             Relax(cb, [st EXCEPT !.pq = pop.q, !.calls = @ + 1],
                                   pop.task, goal, 1),
                             source, goal, same, fuel - 1)

ComputePath(cb, source, goal, same) ==
    SearchLoop(cb, NewSearch(source), source, goal, same, MaxIter)

\* Lines 62-73, one iteration: [done, st, kind, path], done when the
\* function returns or raises.
LoopStep(cb, st, source, goal, same) ==
    IF ~LoopTest(st.pq)
    THEN [done |-> TRUE, st |-> st, kind |-> "path", path |-> <<>>]
    ELSE LET pop == PopTask(st.pq)
             st1 == [st EXCEPT !.pq = pop.q]
         IN  IF pop.err
             THEN [done |-> TRUE, st |-> st1, kind |-> "KeyError", path |-> <<>>]
             ELSE IF pop.task = goal
             THEN LET r == RestorePath(st.parent, source, goal, same)
                  IN  [done |-> TRUE, st |-> st1, kind |-> r.kind, path |-> r.path]
             ELSE [done |-> FALSE,
                   st   |-> Relax(cb, [st1 EXCEPT !.calls = @ + 1], pop.task, goal, 1),
                   kind |-> "none", path |-> <<>>]

\* _register without the test of lines 110-111: an empty path is stored.
RegisterStoresEmpty(cb, c, source, goal, same) ==
    LET r == ComputePath(cb, source, goal, same)
    IN  IF r.kind # "path" THEN [cache |-> c, kind |-> r.kind, calls |-> r.calls]
        ELSE [cache |-> MapSet(c, <<source, goal>>, r.path),
              kind |-> "ok", calls |-> r.calls]

\* _register: [cache, kind, calls]; kind "ok" when it returns.
Register(cb, c, source, goal, same) ==
    LET r == ComputePath(cb, source, goal, same)
    IN  IF r.kind # "path" THEN [cache |-> c, kind |-> r.kind, calls |-> r.calls]
        ELSE IF r.path = <<>> THEN [cache |-> c, kind |-> "ok", calls |-> r.calls]
        ELSE [cache |-> MapSet(c, <<source, goal>>, r.path),
              kind |-> "ok", calls |-> r.calls]

\* get_shortest without the test of line 124: every call registers.
GetShortestNoTest(cb, c, source, goal, same) ==
    LET reg == Register(cb, c, source, goal, same)
    IN  IF reg.kind # "ok"
        THEN [cache |-> reg.cache, kind |-> reg.kind, path |-> <<>>, calls |-> reg.calls]
        ELSE IF <<source, goal>> \in DOMAIN reg.cache
        THEN [cache |-> reg.cache, kind |-> "path",
              path |-> reg.cache[<<source, goal>>], calls |-> reg.calls]
        ELSE [cache |-> reg.cache, kind |-> "ValueError", path |-> <<>>,
              calls |-> reg.calls]

\* get_shortest answering from any cached path that ends at goal.
GetShortestAnySource(cb, c, source, goal, same) ==
    LET others == {k \in DOMAIN c : k[2] = goal}
    IN  IF others # {}
        THEN [cache |-> c, kind |-> "path",
              path |-> c[CHOOSE k \in others : TRUE], calls |-> 0]
        ELSE LET reg == Register(cb, c, source, goal, same)
             IN  IF reg.kind # "ok"
                 THEN [cache |-> reg.cache, kind |-> reg.kind, path |-> <<>>,
                       calls |-> reg.calls]
                 ELSE IF <<source, goal>> \in DOMAIN reg.cache
                 THEN [cache |-> reg.cache, kind |-> "path",
                       path |-> reg.cache[<<source, goal>>], calls |-> reg.calls]
                 ELSE [cache |-> reg.cache, kind |-> "ValueError", path |-> <<>>,
                       calls |-> reg.calls]

\* get_shortest returning what the search of this call found, whatever
\* the cache held.
GetShortestFresh(cb, c, source, goal, same) ==
    LET r == ComputePath(cb, source, goal, same)
    IN  IF r.kind # "path"
        THEN [cache |-> c, kind |-> r.kind, path |-> <<>>, calls |-> r.calls]
        ELSE IF r.path = <<>>
        THEN [cache |-> c, kind |-> "ValueError", path |-> <<>>, calls |-> r.calls]
        ELSE [cache |-> MapSet(c, <<source, goal>>, r.path), kind |-> "path",
              path |-> r.path, calls |-> r.calls]

\* get_shortest: [cache, kind, path, calls]; kind "path" when a path is
\* returned, else the exception raised.
GetShortestOn(cb, c, source, goal, same) ==
    LET reg == IF <<source, goal>> \notin DOMAIN c
               THEN Register(cb, c, source, goal, same)
               ELSE [cache |-> c, kind |-> "ok", calls |-> 0]
    IN  IF reg.kind # "ok"
        THEN [cache |-> reg.cache, kind |-> reg.kind, path |-> <<>>, calls |-> reg.calls]
        ELSE IF <<source, goal>> \in DOMAIN reg.cache
        THEN [cache |-> reg.cache, kind |-> "path",
              path |-> reg.cache[<<source, goal>>], calls |-> reg.calls]
        ELSE [cache |-> reg.cache, kind |-> "ValueError", path |-> <<>>,
              calls |-> reg.calls]

\* invalidate leaving the cache as it is.
InvalidateKeeps(c) == c

\* invalidate
InvalidateOn(c) == EmptyMap

(***************************************************************************)
(* The inputs: graphs of at most MaxEdges weighted edges without loops on  *)
(* a node itself, and heuristics that are zero except at one node.         *)
(***************************************************************************)
AllEdges == {e \in Nodes \X Nodes : e[1] # e[2]}
EdgeSets == {E \in SUBSET AllEdges : Cardinality(E) <= MaxEdges}
Graphs   == UNION {[E -> 0..MaxW] : E \in EdgeSets}
Heurs    == {[n \in Nodes |-> IF n = hn THEN hv ELSE 0] : hn \in Nodes, hv \in 0..MaxH}

NoLast ==
    [op |-> "none", s |-> 0, g |-> 0, same |-> FALSE,
     kind |-> "none", path |-> <<>>, calls |-> 0,
     hit |-> FALSE, first |-> <<>>, firstCalls |-> 0,
     afterInv |-> FALSE, wasCached |-> FALSE, dropped |-> {}]

NoQLast == [op |-> "none", task |-> 0, priority |-> 0, ret |-> 0, err |-> FALSE,
            before |-> EmptyMap, tombs |-> 0]

\* live.of maps a task to the priority and the number of its latest
\* add_task, to whether that call found the task in the queue, and to the
\* priority it had then.
NoLive == [next |-> 0, of |-> EmptyMap]

\* No search of the step-wise specification has begun.
NoSearch ==
    [pc |-> "idle", source |-> 0, goal |-> 0, same |-> FALSE,
     st |-> [pq |-> NewQueue, parent |-> EmptyMap, shortest |-> EmptyMap, calls |-> 0],
     iter |-> 0, kind |-> "none", path |-> <<>>]

\* pgstar.py lines 23-27: the states of a tile.
EMPTY == 0
BLOCKED == 1
START == 2
GOAL == 4
MARKED == 8

GridCols == 3
GridLines == 2

\* The cells of the grid, row by row: cell c is the tile (x, y) with
\* x = (c - 1) % GridCols and y = (c - 1) \div GridCols.
Cells == 1..(GridCols * GridLines)
CellX(c) == (c - 1) % GridCols
CellY(c) == (c - 1) \div GridCols

EmptyGrid == [c \in Cells |-> EMPTY]

NoGLast ==
    [op |-> "none", kind |-> "none", s |-> 0, g |-> 0, path |-> <<>>,
     queried |-> FALSE, before |-> EmptyGrid, cleared |-> FALSE]

ExtrasIdle ==
    /\ srch = NoSearch
    /\ grid = EmptyGrid
    /\ glast = NoGLast

QueueIdle ==
    /\ pqv = NewQueue
    /\ live = NoLive
    /\ popLog = <<>>
    /\ qlast = NoQLast

(***************************************************************************)
(* The engine and its caller.                                              *)
(***************************************************************************)
\* A new engine over some graph and heuristic.
Init ==
    /\ QueueIdle
    /\ ExtrasIdle
    /\ graph \in Graphs
    /\ heur \in Heurs
    /\ cache = EmptyMap
    /\ seen = EmptyMap
    /\ last = NoLast
    /\ edits = 0

\* A call get_shortest(source, goal); same: both arguments are one object.
GetShortest(source, goal, same) ==
    LET r    == GetShortestOn(Callbacks(graph, heur), cache, source, goal, same)
        pair == <<source, goal>>
        hit  == pair \in DOMAIN seen
    IN  /\ same => source = goal
        /\ cache' = r.cache
        /\ seen' = IF r.kind = "path" /\ ~hit
                   THEN MapSet(seen, pair, [path |-> r.path, calls |-> r.calls])
                   ELSE seen
        /\ last' = [NoLast EXCEPT
                      !.op = "get", !.s = source, !.g = goal, !.same = same,
                      !.kind = r.kind, !.path = r.path, !.calls = r.calls,
                      !.hit = hit,
                      !.first = IF hit THEN seen[pair].path ELSE <<>>,
                      !.firstCalls = IF hit THEN seen[pair].calls ELSE 0,
                      !.afterInv = (last.op = "invalidate"),
                      !.wasCached = (last.op = "invalidate" /\ pair \in last.dropped)]
        /\ UNCHANGED <<graph, heur, edits>>
        /\ UNCHANGED <<qvars, xvars>>

\* A call invalidate().
Invalidate ==
    /\ cache' = InvalidateOn(cache)
    /\ seen' = EmptyMap
    /\ last' = [NoLast EXCEPT !.op = "invalidate", !.dropped = DOMAIN cache]
    /\ UNCHANGED <<graph, heur, edits>>
    /\ UNCHANGED <<qvars, xvars>>

\* The owner of the graph adds an edge or changes its weight, and tells
\* the engine nothing.
SetEdge(u, v, w) ==
    LET g2 == MapSet(graph, <<u, v>>, w)
    IN  /\ g2 # graph
        /\ edits < MaxEdits
        /\ edits' = edits + 1
        /\ graph' = g2
        /\ last' = IF last.op = "invalidate" THEN last ELSE [NoLast EXCEPT !.op = "edit"]
        /\ UNCHANGED <<heur, cache, seen>>
        /\ UNCHANGED <<qvars, xvars>>

\* The owner of the graph removes an edge, and tells the engine nothing.
RemoveEdge(u, v) ==
    /\ <<u, v>> \in DOMAIN graph
    /\ edits < MaxEdits
    /\ edits' = edits + 1
    /\ graph' = MapDel(graph, <<u, v>>)
    /\ last' = IF last.op = "invalidate" THEN last ELSE [NoLast EXCEPT !.op = "edit"]
    /\ UNCHANGED <<heur, cache, seen>>
    /\ UNCHANGED <<qvars, xvars>>

\* One query of a new engine.
Query ==
    /\ last.op = "none"
    /\ \E source \in Nodes, goal \in Nodes, same \in BOOLEAN : GetShortest(source, goal, same)

Next == Query

Spec == Init /\ [][Next]_vars

\* A new engine over the empty graph and the zero heuristic; the owner of
\* the graph then edits it between the calls.
CacheInit ==
    /\ QueueIdle
    /\ ExtrasIdle
    /\ graph = EmptyMap
    /\ heur = [n \in Nodes |-> 0]
    /\ cache = EmptyMap
    /\ seen = EmptyMap
    /\ last = NoLast
    /\ edits = 0

CacheNext ==
    \/ \E source \in Nodes, goal \in Nodes, same \in BOOLEAN : GetShortest(source, goal, same)
    \/ Invalidate
    \/ \E e \in AllEdges, w \in 0..MaxW : SetEdge(e[1], e[2], w)
    \/ \E e \in AllEdges : RemoveEdge(e[1], e[2])

SpecCache == CacheInit /\ [][CacheNext]_vars

\* Before the first call of the engine, and before the step-wise search,
\* the caller draws the graph, edge by edge.
DrawEdge(u, v, w) ==
    /\ srch.pc = "idle"
    /\ last.op \in {"none", "edit"}
    /\ SetEdge(u, v, w)

\* An engine over a graph of up to MaxEdits edges that stays as it is from
\* the first call on: queries and invalidations in any order.
HistNext ==
    \/ \E e \in AllEdges, w \in 0..MaxW : DrawEdge(e[1], e[2], w)
    \/ \E source \in Nodes, goal \in Nodes, same \in BOOLEAN : GetShortest(source, goal, same)
    \/ Invalidate

SpecHist == CacheInit /\ [][HistNext]_vars

(***************************************************************************)
(* One search, a loop iteration at a time.                                 *)
(***************************************************************************)
SearchInit ==
    /\ QueueIdle
    /\ ExtrasIdle
    /\ graph \in Graphs
    /\ heur \in Heurs
    /\ cache = EmptyMap
    /\ seen = EmptyMap
    /\ last = NoLast
    /\ edits = 0

\* _compute_path is entered: lines 56-60.
SearchBegin(source, goal, same) ==
    /\ srch.pc = "idle"
    /\ same => source = goal
    /\ srch' = [NoSearch EXCEPT !.pc = "run", !.source = source, !.goal = goal,
                                !.same = same, !.st = NewSearch(source)]
    /\ UNCHANGED <<qvars, evars, grid, glast>>

\* Iterations after which the step-wise search is left where it is.
MaxSteps == 8

\* One iteration of the while loop, or its end.
SearchStep ==
    /\ srch.pc = "run"
    /\ srch.iter < MaxSteps
    /\ LET r == LoopStep(Callbacks(graph, heur), srch.st,
                         srch.source, srch.goal, srch.same)
       IN  srch' = [srch EXCEPT !.pc = IF r.done THEN "done" ELSE "run",
                                !.st = r.st, !.iter = @ + 1,
                                !.kind = r.kind, !.path = r.path]
    /\ UNCHANGED <<qvars, evars, grid, glast>>

SearchNext ==
    \/ \E source \in Nodes, goal \in Nodes, same \in BOOLEAN : SearchBegin(source, goal, same)
    \/ SearchStep

SpecSearch == SearchInit /\ [][SearchNext]_vars

SearchLiveNext ==
    \/ \E e \in AllEdges, w \in 0..MaxW : DrawEdge(e[1], e[2], w)
    \/ \E source \in Nodes, goal \in Nodes, same \in BOOLEAN : SearchBegin(source, goal, same)
    \/ SearchStep

\* One search over a graph of up to MaxEdits edges, under the zero
\* heuristic.  The interpreter runs the loop on: a search that can take a
\* step takes it.
SpecSearchLive == CacheInit /\ [][SearchLiveNext]_vars /\ WF_vars(SearchStep)

(***************************************************************************)
(* pgstar.py: the grid editor GridPath over its engine.  A node of the     *)
(* engine is a cell; a length is counted in hundredths, rounded down.      *)
(***************************************************************************)
\* Vector.length of the difference of two cells.
Dist(a, b) ==
    LET dx == CellX(a) - CellX(b)
        dy == CellY(a) - CellY(b)
        sq == 10000 * (dx * dx + dy * dy)
    IN  CHOOSE r \in 0..(100 * (GridCols + GridLines)) :
            r * r <= sq /\ (r + 1) * (r + 1) > sq

\* _weights, which is the heuristic too, as a table.
GridDist == [p \in Cells \X Cells |-> Dist(p[1], p[2])]

\* The list neighbours of _adj, as (dy, dx).
Neighbours ==
    << <<-1, -1>>, <<-1, 0>>, <<-1, 1>>,
       << 0, -1>>,            << 0, 1>>,
       << 1, -1>>, << 1, 0>>, << 1, 1>> >>

\* _adj: the neighbours of node inside the grid that are not blocked, from
\* the i-th element of the list on.
RECURSIVE GridAdj(_, _, _)
GridAdj(g, node, i) ==
    IF i > Len(Neighbours) THEN <<>>
    ELSE LET x2 == CellX(node) + Neighbours[i][2]
             y2 == CellY(node) + Neighbours[i][1]
             c2 == y2 * GridCols + x2 + 1
         IN  (IF x2 \in 0..(GridCols - 1) /\ y2 \in 0..(GridLines - 1) /\ g[c2] # BLOCKED
              THEN <<c2>> ELSE <<>>) \o GridAdj(g, node, i + 1)

\* The callbacks GridPath hands to its engine.
GridCallbacks(g) ==
    [adj       |-> [n \in Cells |-> GridAdj(g, n, 1)],
     weight    |-> GridDist,
     heuristic |-> GridDist]

\* init_solve from cell c on: [err, grid, start, goal]; err is the
\* ValueError, raised where the scan stands.
RECURSIVE InitSolve(_, _, _, _)
InitSolve(g, c, start, goal) ==
    IF c > GridCols * GridLines
    THEN [err |-> start = None \/ goal = None, grid |-> g, start |-> start, goal |-> goal]
    ELSE IF g[c] = MARKED
    THEN InitSolve([g EXCEPT ![c] = EMPTY], c + 1, start, goal)
    ELSE IF g[c] = START /\ start = None
    THEN InitSolve(g, c + 1, c, goal)
    ELSE IF g[c] = GOAL /\ goal = None
    THEN InitSolve(g, c + 1, start, c)
    ELSE IF g[c] \notin {BLOCKED, EMPTY}
    THEN [err |-> TRUE, grid |-> g, start |-> start, goal |-> goal]
    ELSE InitSolve(g, c + 1, start, goal)

\* solve marking the whole path, its last node too.
MarkedTilesAll(path) == {path[i] : i \in 1..Len(path)}

\* solve, lines 45-46: the tiles of path[:-1].
MarkedTiles(path) == {path[i] : i \in 1..(Len(path) - 1)}

\* change_tile, lines 71-72: (tile ^ state) & state for a state of one bit.
ToggleTile(tile, state) ==
    IF (tile \div state) % 2 = 1 THEN EMPTY ELSE state

\* GridPath.__init__: an empty grid and a new engine.  The engine reads the
\* grid through its callbacks; graph and heur stay unused.
GridInit ==
    /\ QueueIdle
    /\ ExtrasIdle
    /\ graph = EmptyMap
    /\ heur = [n \in Nodes |-> 0]
    /\ cache = EmptyMap
    /\ seen = EmptyMap
    /\ last = NoLast
    /\ edits = 0

\* GridPath.change_tile(pos, state), state being the one selected in the
\* editor.
ChangeTile(c, state) ==
    /\ cache' = InvalidateOn(cache)
    /\ grid' = [grid EXCEPT ![c] = ToggleTile(grid[c], state)]
    /\ glast' = [NoGLast EXCEPT !.op = "change_tile", !.cleared = glast.cleared]
    /\ UNCHANGED <<graph, heur, seen, last, edits, srch>>
    /\ UNCHANGED qvars

\* GridPath.clear().
Clear ==
    /\ grid' = EmptyGrid
    /\ glast' = [NoGLast EXCEPT !.op = "clear",
                                !.cleared = (glast.cleared \/ cache # EmptyMap)]
    /\ UNCHANGED <<graph, heur, cache, seen, last, edits, srch>>
    /\ UNCHANGED qvars

\* GridPath.solve().  The two arguments of get_shortest are new Vector
\* objects, never one object.
Solve ==
    LET i == InitSolve(grid, 1, None, None)
        r == GetShortestOn(GridCallbacks(i.grid), cache, i.start, i.goal, FALSE)
    IN  /\ IF i.err
           THEN /\ grid' = i.grid
                /\ cache' = cache
                /\ glast' = [NoGLast EXCEPT !.op = "solve", !.kind = "ValueError",
                                            !.before = grid, !.cleared = glast.cleared]
           ELSE /\ grid' = IF r.kind = "path"
                           THEN [c \in Cells |-> IF c \in MarkedTiles(r.path)
                                                 THEN MARKED ELSE i.grid[c]]
                           ELSE i.grid
                /\ cache' = r.cache
                /\ glast' = [NoGLast EXCEPT !.op = "solve", !.kind = r.kind,
                                            !.s = i.start, !.g = i.goal,
                                            !.path = r.path, !.queried = TRUE,
                                            !.before = grid, !.cleared = glast.cleared]
       /\ UNCHANGED <<graph, heur, seen, last, edits, srch>>
       /\ UNCHANGED qvars

GridNext ==
    \/ \E c \in Cells, state \in {BLOCKED, START, GOAL} : ChangeTile(c, state)
    \/ Clear
    \/ Solve

SpecGrid == GridInit /\ [][GridNext]_vars

(***************************************************************************)
(* Reference definitions for the claims: reachability, least cost by      *)
(* Bellman-Ford, walks and their cost, admissible and consistent           *)
(* heuristics.                                                             *)
(***************************************************************************)
RECURSIVE ReachFrom(_, _)
ReachFrom(g, S) ==
    LET T == S \cup {e[2] : e \in {f \in DOMAIN g : f[1] \in S}}
    IN  IF T = S THEN S ELSE ReachFrom(g, T)

\* The nodes reachable from s, s included.
Reach(g, s) == ReachFrom(g, {s})

Inf == NumNodes * MaxW + 1

SetMin(S) == CHOOSE x \in S : \A y \in S : x <= y

RECURSIVE BellmanFord(_, _, _)
BellmanFord(g, d, k) ==
    IF k = 0 THEN d
    ELSE BellmanFord(g,
           [n \in Nodes |->
              SetMin({d[n]} \cup {d[e[1]] + g[e] :
                                   e \in {f \in DOMAIN g : f[2] = n /\ d[f[1]] < Inf}})],
           k - 1)

\* The least cost of a walk from s to t, Inf when there is none.
MinCost(g, s, t) == BellmanFord(g, [n \in Nodes |-> IF n = s THEN 0 ELSE Inf], NumNodes)[t]

\* path, which leaves out its start s, is a walk from s to t in g.
IsWalk(g, s, path, t) ==
    /\ Len(path) >= 1
    /\ path[Len(path)] = t
    /\ <<s, path[1]>> \in DOMAIN g
    /\ \A i \in 1..(Len(path) - 1) : <<path[i], path[i + 1]>> \in DOMAIN g

RECURSIVE PathCost(_, _, _)
PathCost(g, s, path) ==
    IF path = <<>> THEN 0
    ELSE g[<<s, path[1]>>] + PathCost(g, path[1], Tail(path))

Admissible(g, h, t) == \A n \in Nodes : MinCost(g, n, t) < Inf => h[n] <= MinCost(g, n, t)
Consistent(g, h)    == \A e \in DOMAIN g : h[e[1]] <= g[e] + h[e[2]]

LastPair == <<last.s, last.g>>

(***************************************************************************)
(* The claims about the engine.                                            *)
(***************************************************************************)
\* C1: a query for a goal other than source that cannot be reached from
\* source fails with ValueError, and no other error, and leaves the cache
\* without an entry for the pair.
C1_NoPathIsValueError ==
    (last.op = "get" /\ last.s # last.g /\ last.g \notin Reach(graph, last.s))
        => (last.kind = "ValueError" /\ LastPair \notin DOMAIN cache)

\* C2: with an admissible and consistent heuristic, a query for a reachable
\* goal other than source returns a path whose total weight is the least
\* cost from source to goal that Bellman-Ford computes on the graph.
C2_Optimality ==
    (/\ last.op = "get" /\ last.s # last.g
     /\ last.g \in Reach(graph, last.s)
     /\ Admissible(graph, heur, last.g) /\ Consistent(graph, heur))
        => /\ last.kind = "path"
           /\ IsWalk(graph, last.s, last.path, last.g)
           /\ PathCost(graph, last.s, last.path) = MinCost(graph, last.s, last.g)

\* A path of two hops was returned under an admissible and consistent
\* heuristic that is not zero at the node in the middle of the path.
C2_Witness ==
    /\ last.op = "get" /\ last.s # last.g /\ last.kind = "path"
    /\ Admissible(graph, heur, last.g) /\ Consistent(graph, heur)
    /\ Len(last.path) = 2
    /\ heur[last.path[1]] > 0

\* C3: whatever the heuristic, a returned path is a walk of the graph: its
\* first node is adjacent to source, every later node to the node before
\* it, and its last node is goal.
C3_ReturnedPathIsWalk ==
    (last.op = "get" /\ last.kind = "path")
        => IsWalk(graph, last.s, last.path, last.g)

\* A path of three hops was returned under a heuristic that overestimates.
C3_Witness ==
    /\ last.op = "get" /\ last.kind = "path"
    /\ Len(last.path) = 3
    /\ ~Admissible(graph, heur, last.g)

\* C4: a query for a pair for which an earlier query returned a path, with
\* no invalidate() since, returns an equal path and calls the adjacency
\* callback no time, which is less often than the earlier query did.
C4_CacheHit ==
    (last.op = "get" /\ last.hit)
        => /\ last.kind = "path"
           /\ last.path = last.first
           /\ last.calls = 0
           /\ last.calls < last.firstCalls

\* A query was answered for a pair that an earlier query had found a path for.
C4_Witness ==
    /\ last.op = "get" /\ last.hit
    /\ last.kind = "path" /\ Len(last.path) = 2

\* C5 as stated: the first query after invalidate() calls the adjacency
\* callback at least once, whatever the pair.
C5_AnyPairCallsAdjacency ==
    (last.op = "get" /\ last.afterInv) => last.calls >= 1

\* C5 amended: the first query after invalidate() for a pair whose goal is
\* not its source calls the adjacency callback at least once, also when the
\* pair was in the cache that invalidate() emptied.
C5_OtherGoalCallsAdjacency ==
    (last.op = "get" /\ last.afterInv /\ last.s # last.g) => last.calls >= 1

\* The first query after invalidate() was for a pair that had been cached.
C5_Witness ==
    /\ last.op = "get" /\ last.afterInv /\ last.s # last.g
    /\ last.wasCached
    /\ last.kind = "path"

\* C6: a query for a pair with a cached path returns that path unchanged,
\* also when the graph has changed since and the path is no walk of the
\* graph any more or costs more than the least; the first query after
\* invalidate() answers for the graph as it is: a path it returns is a walk
\* of least cost (the heuristic being zero), and it fails only when goal is
\* source or out of reach.
C6_StaleUntilInvalidate ==
    last.op = "get" =>
        /\ (/\ last.hit
            /\ \/ ~IsWalk(graph, last.s, last.first, last.g)
               \/ PathCost(graph, last.s, last.first) > MinCost(graph, last.s, last.g))
               => (last.kind = "path" /\ last.path = last.first)
        /\ (last.afterInv /\ last.kind = "path")
               => /\ IsWalk(graph, last.s, last.path, last.g)
                  /\ PathCost(graph, last.s, last.path) = MinCost(graph, last.s, last.g)
        /\ (last.afterInv /\ last.kind # "path")
               => (last.s = last.g \/ last.g \notin Reach(graph, last.s))

\* A cached path that is no walk of the graph any more was returned.
C6_Witness ==
    /\ last.op = "get" /\ last.hit /\ last.kind = "path"
    /\ ~IsWalk(graph, last.s, last.path, last.g)

\* C7: a query whose goal is its source fails with ValueError, calls the
\* adjacency callback no time and adds no entry for the pair to the cache.
C7_SourceIsGoal ==
    (last.op = "get" /\ last.s = last.g)
        => /\ last.kind = "ValueError"
           /\ last.calls = 0
           /\ LastPair \notin DOMAIN cache

(***************************************************************************)
(* The queue on its own: add_task, remove_task and pop_task in any order.  *)
(***************************************************************************)
EngineIdle ==
    /\ graph = EmptyMap
    /\ heur = [n \in Nodes |-> 0]
    /\ cache = EmptyMap
    /\ seen = EmptyMap
    /\ last = NoLast
    /\ edits = 0

QueueInit == QueueIdle /\ EngineIdle /\ ExtrasIdle

QAdd(task, priority) ==
    /\ live.next < MaxAdds
    /\ pqv' = AddTask(pqv, task, priority)
    /\ live' = [next |-> live.next + 1,
                of   |-> MapSet(live.of, task,
                           [priority |-> priority, seq |-> live.next,
                            rekeyed  |-> task \in DOMAIN live.of,
                            old      |-> IF task \in DOMAIN live.of
                                         THEN live.of[task].priority ELSE 0])]
    /\ popLog' = <<>>
    /\ qlast' = [NoQLast EXCEPT !.op = "add", !.task = task, !.priority = priority,
                                !.before = live.of]
    /\ UNCHANGED <<evars, xvars>>

QRemove(task) ==
    LET r == RemoveTaskCall(pqv, task)
    IN  /\ pqv' = r.q
        /\ live' = [live EXCEPT !.of = MapDel(live.of, task)]
        /\ popLog' = popLog
        /\ qlast' = [NoQLast EXCEPT !.op = "remove", !.task = task, !.err = r.err,
                                    !.before = live.of]
        /\ UNCHANGED <<evars, xvars>>

QPop ==
    LET r == PopTask(pqv)
    IN  /\ pqv' = r.q
        /\ live' = [live EXCEPT !.of = MapDel(live.of, r.task)]
        /\ popLog' = IF r.err THEN popLog
                     ELSE Append(popLog,
                            IF r.task \in DOMAIN live.of
                            THEN [task |-> r.task, wasLive |-> TRUE,
                                  priority |-> live.of[r.task].priority,
                                  seq |-> live.of[r.task].seq]
                            ELSE [task |-> r.task, wasLive |-> FALSE,
                                  priority |-> 0, seq |-> 0])
        /\ qlast' = [NoQLast EXCEPT !.op = "pop", !.ret = r.task, !.err = r.err,
                                    !.before = live.of,
                                    !.tombs = Cardinality({e \in pqv.heap : e[3] = REMOVED})]
        /\ UNCHANGED <<evars, xvars>>

QueueNext ==
    \/ \E task \in Tasks, priority \in Priorities : QAdd(task, priority)
    \/ \E task \in Tasks : QRemove(task)
    \/ QPop

SpecQueue == QueueInit /\ [][QueueNext]_vars

(***************************************************************************)
(* The claims about the queue.                                             *)
(***************************************************************************)
KeyLess(a, b) == \/ a.priority < b.priority
                 \/ a.priority = b.priority /\ a.seq < b.seq

\* C8: the tasks that pop_task calls return one after the other, with no
\* add_task between them, are tasks of the queue in the order of their
\* current priority, those of equal priority in the order of their latest
\* insertion, and every task still in the queue comes after them.
C8_PopOrder ==
    /\ \A i \in 1..Len(popLog) : popLog[i].wasLive
    /\ \A i \in 1..Len(popLog) : \A j \in 1..Len(popLog) :
           i < j => KeyLess(popLog[i], popLog[j])
    /\ \A t \in DOMAIN live.of :
           popLog # <<>> => KeyLess(popLog[Len(popLog)], live.of[t])

\* Tasks 1, 2, 3 were added with the priorities 5, 3, 3 in this order and
\* three calls of pop_task returned 2, 3, 1.
C8_Witness ==
    /\ Len(popLog) = 3
    /\ popLog[1] = [task |-> 2, wasLive |-> TRUE, priority |-> 3, seq |-> 1]
    /\ popLog[2] = [task |-> 3, wasLive |-> TRUE, priority |-> 3, seq |-> 2]
    /\ popLog[3] = [task |-> 1, wasLive |-> TRUE, priority |-> 5, seq |-> 0]

\* C9: pop_task returns only a task that is in the queue, and the task is
\* out of the queue afterwards, so that it is returned once per insertion;
\* a task whose priority was updated while it was in the queue is returned
\* when no task of the queue has a priority below its new one, whatever
\* its old priority was.
C9_DecreaseKey ==
    (qlast.op = "pop" /\ ~qlast.err) =>
        /\ qlast.ret \in DOMAIN qlast.before
        /\ qlast.ret \notin DOMAIN live.of
        /\ qlast.before[qlast.ret].rekeyed =>
              \A u \in DOMAIN qlast.before :
                  qlast.before[u].priority >= qlast.before[qlast.ret].priority

\* pop_task returned a task whose priority had been lowered, ahead of a
\* task whose priority lies between the new and the old one, the old entry
\* being still in the heap.
C9_Witness ==
    /\ qlast.op = "pop" /\ ~qlast.err
    /\ qlast.ret \in DOMAIN qlast.before
    /\ qlast.before[qlast.ret].rekeyed
    /\ \E u \in DOMAIN qlast.before :
          /\ qlast.before[u].priority > qlast.before[qlast.ret].priority
          /\ qlast.before[u].priority < qlast.before[qlast.ret].old
    /\ \E e \in pqv.heap : e[3] = REMOVED /\ e[1] = qlast.before[qlast.ret].old

\* C10: the queue tests true exactly when some task is in it.
C10_BoolIffLive ==
    QueueBool(pqv) <=> (DOMAIN live.of # {})

\* C11: the heap holds at most one entry that is not a tombstone per
\* task, entry_finder maps exactly the tasks with such an entry to that
\* entry, and the counts of the heap's entries differ from one another and
\* lie below the counter, so that each new entry gets a count above all
\* earlier ones.
C11_LiveEntries ==
    /\ \A t \in Tasks : Cardinality({e \in pqv.heap : e[3] = t}) <= 1
    /\ DOMAIN pqv.entry_finder = {e[3] : e \in {f \in pqv.heap : f[3] # REMOVED}}
    /\ \A t \in DOMAIN pqv.entry_finder :
           pqv.entry_finder[t] \in pqv.heap /\ pqv.entry_finder[t][3] = t
    /\ \A e \in pqv.heap : \A f \in pqv.heap : e # f => e[2] # f[2]
    /\ \A e \in pqv.heap : e[2] < pqv.counter

\* The heap holds the tombstone of a task beside the task's live entry
\* and the live entry of another task.
C11_Witness ==
    \E t \in DOMAIN pqv.entry_finder :
        /\ \E e \in pqv.heap : e[3] = REMOVED /\ e[2] < pqv.entry_finder[t][2]
        /\ qlast.op = "add" /\ qlast.task = t /\ t \in DOMAIN qlast.before
        /\ \E u \in DOMAIN pqv.entry_finder : u # t

\* C12: remove_task for a task that is not in the queue raises KeyError
\* and leaves the heap and the index as they were; for a task in the queue
\* it turns the task's live entry into a tombstone, takes the task out of
\* the index and changes no other entry.
C12_RemoveTask ==
    [][\A t \in Tasks :
         (qlast'.op = "remove" /\ qlast'.task = t) =>
            IF t \in DOMAIN live.of
            THEN /\ ~qlast'.err
                 /\ \E e \in pqv.heap :
                       /\ e[3] = t
                       /\ pqv'.heap = (pqv.heap \ {e}) \cup {<<e[1], e[2], REMOVED>>}
                 /\ pqv'.entry_finder = MapDel(pqv.entry_finder, t)
                 /\ pqv'.counter = pqv.counter
            ELSE qlast'.err /\ pqv' = pqv]_vars

\* remove_task took a task out of a queue that holds another task, and
\* its tombstone lies in the heap.
C12_Witness ==
    /\ qlast.op = "remove" /\ ~qlast.err
    /\ qlast.task \in DOMAIN qlast.before
    /\ DOMAIN pqv.entry_finder # {}
    /\ \E e \in pqv.heap : e[3] = REMOVED /\ e[1] = qlast.before[qlast.task].priority

\* C13: pop_task raises KeyError exactly when no task is in the queue at
\* the call, also when the heap holds tombstones then; when a task is in
\* the queue it returns a task of the queue.
C13_PopOnEmpty ==
    qlast.op = "pop" =>
        /\ qlast.err <=> (DOMAIN qlast.before = {})
        /\ ~qlast.err => qlast.ret \in DOMAIN qlast.before

\* pop_task raised KeyError on a heap that held two tombstones and no
\* live entry.
C13_Witness ==
    /\ qlast.op = "pop" /\ qlast.err
    /\ qlast.tombs = 2
    /\ pqv.heap = {}

\* C14: the cache is the record of the first path each pair got since
\* the last invalidate(): no get_shortest removes or changes an entry, and
\* every entry belongs to a pair whose search found a path, is not empty,
\* ends with the goal of its key and does not contain the source.
C14_CacheEntries ==
    /\ DOMAIN cache = DOMAIN seen
    /\ \A k \in DOMAIN cache :
          /\ cache[k] = seen[k].path
          /\ cache[k] # <<>>
          /\ cache[k][Len(cache[k])] = k[2]
          /\ \A i \in 1..Len(cache[k]) : cache[k][i] # k[1]

\* The cache holds two entries, one of more than one node, and the last
\* call raised an error.
C14_Witness ==
    /\ Cardinality(DOMAIN cache) >= 2
    /\ \E k \in DOMAIN cache : Len(cache[k]) >= 2
    /\ last.op = "get" /\ last.kind \in {"ValueError", "KeyError"}

\* C15: whatever the heuristic, a goal that can be reached from a source
\* other than it gets a path, and no error.
C15_Completeness ==
    (last.op = "get" /\ last.s # last.g /\ last.g \in Reach(graph, last.s))
        => (last.kind = "path" /\ last.path # <<>>)

\* A path was returned under a heuristic that is not admissible, and it
\* costs more than the least cost.
C15_Witness ==
    /\ last.op = "get" /\ last.kind = "path" /\ last.s # last.g
    /\ ~Admissible(graph, heur, last.g)
    /\ PathCost(graph, last.s, last.path) > MinCost(graph, last.s, last.g)

\* The step-wise search ends as _compute_path taken as a whole does.
SearchAgrees ==
    srch.pc = "done" =>
        LET r == ComputePath(Callbacks(graph, heur), srch.source, srch.goal, srch.same)
        IN  r.kind = srch.kind /\ r.path = srch.path /\ r.calls = srch.st.calls

RECURSIVE ChainTo(_, _, _, _)
ChainTo(parent_dic, source, n, visited) ==
    IF n = source THEN TRUE
    ELSE IF n \in visited \/ n \notin DOMAIN parent_dic \/ parent_dic[n] = None THEN FALSE
    ELSE ChainTo(parent_dic, source, parent_dic[n], visited \cup {n})

\* The part of C17 on the parent links: parent[source] is None, the
\* parent links lead from every node with a best known cost to source
\* without meeting a node twice, and each link (parent[n], n) is an edge
\* with shortest[n] >= shortest[parent[n]] + weight(parent[n], n).  It holds
\* in every state of SpecSearch.
ParentLinks ==
    srch.pc # "idle" =>
        LET st == srch.st
        IN  /\ DOMAIN st.parent = DOMAIN st.shortest
            /\ st.parent[srch.source] = None
            /\ \A n \in DOMAIN st.shortest :
                  /\ ChainTo(st.parent, srch.source, n, {})
                  /\ n # srch.source =>
                        /\ <<st.parent[n], n>> \in DOMAIN graph
                        /\ st.shortest[n] >=
                             st.shortest[st.parent[n]] + graph[<<st.parent[n], n>>]

\* C17: at every step of a search the parent links are as ParentLinks
\* says, and hence the reconstruction of the path, which begins when goal
\* is popped, always ends with a sequence that holds neither source nor a
\* node twice.  A search ends with goal in shortest only when goal was
\* popped.
C17_ParentChain ==
    /\ ParentLinks
    /\ (srch.pc = "done" /\ srch.goal \in DOMAIN srch.st.shortest) =>
          /\ srch.kind = "path"
          /\ \A i \in 1..Len(srch.path) : srch.path[i] # srch.source
          /\ \A i \in 1..Len(srch.path) : \A j \in 1..Len(srch.path) :
                srch.path[i] = srch.path[j] => i = j

C19_NoStalePath ==
    (glast.op = "solve" /\ glast.kind = "path") =>
        LET f == GetShortestOn(GridCallbacks(grid), EmptyMap, glast.s, glast.g, FALSE)
        IN  /\ f.kind = "path"
            /\ f.path = glast.path
            /\ \A i \in 1..Len(glast.path) : grid[glast.path[i]] # BLOCKED

\* solve got a path around a blocked tile after a clear() that had left a
\* path in the cache.
C19_Witness ==
    /\ glast.op = "solve" /\ glast.kind = "path"
    /\ glast.cleared
    /\ Len(glast.path) >= 2
    /\ \E c \in Cells : grid[c] = BLOCKED

\* C20: solve calls the engine only when the grid holds one start tile and
\* one goal tile, and else raises ValueError without a call; after a solve
\* that got a path the grid holds that start tile and that goal tile, the
\* blocked tiles are the ones blocked before, and the marked tiles are the
\* nodes of the path other than goal.
C20_SolveFrame ==
    glast.op = "solve" =>
        LET starts == {c \in Cells : glast.before[c] = START}
            goals  == {c \in Cells : glast.before[c] = GOAL}
            one    == Cardinality(starts) = 1 /\ Cardinality(goals) = 1
        IN  /\ glast.queried => one
            /\ ~one => (glast.kind = "ValueError" /\ ~glast.queried)
            /\ glast.kind = "path" =>
                  /\ {c \in Cells : grid[c] = START} = {glast.s}
                  /\ {c \in Cells : grid[c] = GOAL} = {glast.g}
                  /\ starts = {glast.s} /\ goals = {glast.g}
                  /\ {c \in Cells : grid[c] = BLOCKED}
                        = {c \in Cells : glast.before[c] = BLOCKED}
                  /\ {c \in Cells : grid[c] = MARKED}
                        = {glast.path[i] : i \in 1..(Len(glast.path) - 1)}

\* solve got a path of two nodes or more on a grid with a blocked tile,
\* and reset a tile that an earlier solve had marked.
C20_Witness ==
    /\ glast.op = "solve" /\ glast.kind = "path"
    /\ Len(glast.path) >= 2
    /\ \E c \in Cells : glast.before[c] = MARKED /\ grid[c] = EMPTY
    /\ \E c \in Cells : grid[c] = BLOCKED

=============================================================================
